---------------------------- MODULE Spec2Model ----------------------------
(***************************************************************************)
(* UML_diagram.py: the syntax visitor (ImportVisitor), the graph renderer  *)
(* (DependencyDotGenerator) and the driver loop of UML_generator.          *)
(*                                                                         *)
(* A Python str is a sequence of pieces.  The characters of identifiers    *)
(* are single pieces, so that startswith / islower / isupper are computed; *)
(* the literals of the source are kept as whole pieces.  A Python dict is  *)
(* a sequence of entries [k, v] in insertion order.                        *)
(***************************************************************************)
EXTENDS Integers, Sequences, FiniteSets, TLC

(* ------------------------------ bounds --------------------------------- *)

\* Nodes (other than Module nodes) the driver visits in one run.
MaxNodes == 3

(* ------------------------------ str ------------------------------------ *)

Upper == {"A", "C", "E", "G", "O", "Q", "S"}
Lower == {"b", "d", "f", "h", "i", "n", "o", "p", "r", "s", "t", "u", "w", "x", "y"}

startswith(s, prefix) ==
    /\ Len(s) >= Len(prefix)
    /\ SubSeq(s, 1, Len(prefix)) = prefix

\* str.islower: no uppercase character and at least one lowercase one.
islower(s) ==
    /\ \E i \in 1..Len(s) : s[i] \in Lower
    /\ \A i \in 1..Len(s) : s[i] \notin Upper

\* str.isupper: no lowercase character and at least one uppercase one.
isupper(s) ==
    /\ \E i \in 1..Len(s) : s[i] \in Upper
    /\ \A i \in 1..Len(s) : s[i] \notin Lower

Digit == <<"0", "1", "2", "3", "4", "5", "6", "7", "8", "9">>

RECURSIVE strNat(_)
strNat(n) ==
    IF n < 10 THEN <<Digit[n + 1]>>
    ELSE strNat(n \div 10) \o <<Digit[(n % 10) + 1]>>

\* str(int)
str(n) == IF n < 0 THEN <<"-">> \o strNat(0 - n) ELSE strNat(n)

\* s.split('.')[-1]: what follows the last '.' of s (all of s without one).
RECURSIVE fix(_)
fix(s) ==
    IF \E i \in 1..Len(s) : s[i] = "."
    THEN LET i == CHOOSE j \in 1..Len(s) : s[j] = "."
         IN  fix(SubSeq(s, i + 1, Len(s)))
    ELSE s

(* ------------------------------ dict ----------------------------------- *)

Keys(d) == {d[i].k : i \in 1..Len(d)}

Has(d, k) == k \in Keys(d)

Get(d, k) == d[CHOOSE i \in 1..Len(d) : d[i].k = k].v

\* d[k] = v: an existing key keeps its place, a new one goes last.
Put(d, k, v) ==
    IF Has(d, k)
    THEN [i \in 1..Len(d) |-> IF d[i].k = k THEN [k |-> k, v |-> v] ELSE d[i]]
    ELSE Append(d, [k |-> k, v |-> v])

InSeq(x, s) == \E i \in 1..Len(s) : s[i] = x

(* ------------------------------ set iteration -------------------------- *)

\* The hash seed of a run (PYTHONHASHSEED): the iteration order of a set of
\* str is a function of the set and of the seed, and differs between runs.
HashSeeds == {0, 1}

RECURSIVE Canon(_)
Canon(S) ==
    IF S = {} THEN <<>>
    ELSE LET x == CHOOSE y \in S : TRUE
         IN  <<x>> \o Canon(S \ {x})

RemoveAt(s, i) == SubSeq(s, 1, i - 1) \o SubSeq(s, i + 1, Len(s))

RECURSIVE Permute(_, _)
Permute(s, seed) ==
    IF Len(s) <= 1 THEN s
    ELSE LET i == (seed % Len(s)) + 1
         IN  <<s[i]>> \o Permute(RemoveAt(s, i), seed \div Len(s))

\* for x in S, S a set: the order in which the run with this seed yields S.
IterSet(S, seed) == Permute(Canon(S), seed)

(* ------------------------------ ast nodes ------------------------------ *)

\* A node carries the fields the visitor reads.  A FunctionDef keeps, of its
\* body, the attribute accesses ast.walk finds below it.  The driver's walk is
\* breadth-first over each file, so the nodes reach visit as a flat sequence:
\* here any sequence of ImportFrom, ClassDef and Attribute nodes after the
\* Module node of a file.

Ab == <<"A", "b">>
Cd == <<"C", "d">>
Ef == <<"E", "f">>
Gh == <<"G", "h">>
Qt == <<"Q", "t">>
os == <<"o", "s">>
Star == <<"*">>
run == <<"r", "u", "n">>
init == <<"_", "_", "i", "n", "i", "t", "_", "_">>
dunder_str == <<"_", "_", "s", "t", "r", "_", "_">>
attr_x == <<"_", "x">>
attr_w == <<"_", "w">>
attr_yy == <<"_", "_", "y">>
attr_up == <<"u", "p">>

Name(id) == [kind |-> "Name", id |-> id]
Attribute(value, attr) == [kind |-> "Attribute", value |-> value, attr |-> attr]
FunctionDef(name, attrs) == [kind |-> "FunctionDef", name |-> name, attrs |-> attrs]
ClassDef(name, bases, body) ==
    [kind |-> "ClassDef", name |-> name, bases |-> bases, body |-> body]
ImportFrom(names) == [kind |-> "ImportFrom", names |-> names]
Module == [kind |-> "Module"]

\* class Ab: pass
cBase == ClassDef(Ab, <<>>, <<>>)
\* class Cd(Ab): def __init__(self): self._x = 1 / def run(self): pass
cChild == ClassDef(Cd, <<Name(Ab)>>,
                   <<FunctionDef(init, <<Attribute("self", attr_x)>>),
                     FunctionDef(run, <<>>)>>)
\* class Ef(Cd, pkg.Gh, Ab):
\*     def run(self): other._w / def __str__(self): pass
\*     def __init__(self): self._x = 1; self.__y = 2
cMulti == ClassDef(Ef, <<Name(Cd), Attribute("pkg", Gh), Name(Ab)>>,
                   <<FunctionDef(run, <<Attribute("other", attr_w)>>),
                     FunctionDef(dunder_str, <<>>),
                     FunctionDef(init, <<Attribute("self", attr_x),
                                         Attribute("self", attr_yy)>>)>>)

\* class Cd(Ef): pass
cRebased == ClassDef(Cd, <<Name(Ef)>>, <<>>)

ClassDefNodes == {cBase, cChild, cMulti, cRebased}

ImportFromNodes ==
    {ImportFrom(<<Ab>>), ImportFrom(<<Cd, Ab>>), ImportFrom(<<os, Ab>>),
     ImportFrom(<<Qt>>), ImportFrom(<<Star>>)}

AttributeNodes == {Attribute("os", attr_up)}

\* The files of the package in os.walk order, by module name.
ModuleNames == <<"pkg.a", "pkg.b">>


(* ------------------------------ ImportVisitor --------------------------- *)

\* ImportVisitor.__init__
ImportVisitor(package_name) ==
    [depgraph |-> <<>>,
     package_name |-> package_name,
     cur_module_name |-> "None",
     counter |-> 0,
     num_to_class |-> <<>>,
     depgRelation |-> <<>>,
     verb_list |-> <<>>,
     import_relation |-> <<>>]

\* add_dependency with the module's set assigned instead of extended.
add_dependency_replacing(self, depend_module) ==
    [self EXCEPT !.depgraph = Put(@, self.cur_module_name, {depend_module})]

\* self.depgraph.setdefault(self.cur_module_name, set()).add(depend_module)
add_dependency(self, depend_module) ==
    LET deps == IF Has(self.depgraph, self.cur_module_name)
                THEN Get(self.depgraph, self.cur_module_name)
                ELSE {}
    IN  [self EXCEPT !.depgraph =
            Put(@, self.cur_module_name, deps \cup {depend_module})]

\* The test of line 191 on the first imported name.
skipped_import(name) ==
    \/ startswith(name, <<"Q">>)
    \/ islower(name)
    \/ isupper(name)
    \/ name = Star

import_info(self, node) ==
    LET name == node.names[1]
        vlist == IF Has(self.import_relation, self.counter)
                 THEN Get(self.import_relation, self.counter)
                 ELSE <<>>
    IN  IF skipped_import(name) THEN self
        ELSE IF ~InSeq(name, vlist)
        THEN [self EXCEPT !.import_relation =
                 Put(@, self.counter, Append(vlist, name))]
        ELSE self

\* [n.name for n in node.body if isinstance(n, ast.FunctionDef)]
methods_of(node) ==
    LET body == node.body
    IN  [i \in 1..Len(body) |-> body[i].name]

\* {n.attr for n in ast.walk(node) if isinstance(n, ast.Attribute) and
\*  n.attr.startswith("_") and not n.attr.startswith("__")}: every Attribute
\* node below the class, in its bases and in all of its methods.
walk_attributes(node) ==
    LET inBases == {node.bases[i].attr :
                       i \in {j \in 1..Len(node.bases) :
                                 node.bases[j].kind = "Attribute"}}
        inBody == UNION {{node.body[i].attrs[j].attr :
                             j \in 1..Len(node.body[i].attrs)} :
                         i \in 1..Len(node.body)}
    IN  {a \in inBases \cup inBody :
            startswith(a, <<"_">>) /\ ~startswith(a, <<"_", "_">>)}

\* for a in attribute: atr_list = atr_list + a + '\l'
RECURSIVE field_entries(_, _)
field_entries(attribute, atr_list) ==
    IF attribute = <<>> THEN atr_list
    ELSE field_entries(Tail(attribute), atr_list \o Head(attribute) \o <<"\\l">>)

\* for method in methods: ... (lines 217-227), from the i-th method on.
RECURSIVE method_entries(_, _, _, _, _)
method_entries(node, methods, i, seed, atr_list) ==
    IF i > Len(methods) THEN atr_list
    ELSE IF methods[i] = init
    THEN method_entries(node, methods, i + 1, seed,
             field_entries(IterSet(walk_attributes(node), seed), atr_list)
                 \o <<"| ">>)
    ELSE IF startswith(methods[i], <<"_", "_">>)
    THEN method_entries(node, methods, i + 1, seed, atr_list)
    ELSE method_entries(node, methods, i + 1, seed,
             atr_list \o methods[i] \o <<"()", "\\l">>)

\* atr_list of class_info (lines 213-229).
class_label(node, counter, seed) ==
    method_entries(node, methods_of(node), 1, seed,
        <<"\"">> \o str(counter) \o <<"\" [label=\"{">> \o node.name \o <<"| ">>)
    \o <<"}\", shape=\"record\"]">>

\* ids = [n.id for n in node.bases if hasattr(n, 'id')]
base_ids(node) ==
    LET idx == {i \in 1..Len(node.bases) : node.bases[i].kind = "Name"}
        RECURSIVE pick(_)
        pick(i) == IF i > Len(node.bases) THEN <<>>
                   ELSE IF i \in idx THEN <<node.bases[i].id>> \o pick(i + 1)
                   ELSE pick(i + 1)
    IN  pick(1)

\* for id in ids: self.depgRelation[node.name] = id
RECURSIVE record_bases_from(_, _, _, _)
record_bases_from(depgRelation, name, ids, i) ==
    IF i > Len(ids) THEN depgRelation
    ELSE record_bases_from(Put(depgRelation, name, ids[i]), name, ids, i + 1)

\* The loop of lines 237-238 leaving after its first pass: the first base kept.
record_bases_first(depgRelation, name, ids) ==
    IF ids = <<>> THEN depgRelation ELSE Put(depgRelation, name, ids[1])

record_bases(depgRelation, name, ids) ==
    record_bases_from(depgRelation, name, ids, 1)

class_info(self, node, seed) ==
    LET atr_list == class_label(node, self.counter, seed)
        s1 == [self EXCEPT !.num_to_class = Put(@, node.name, self.counter)]
        s2 == add_dependency(s1, atr_list)
        s3 == [s2 EXCEPT !.verb_list = Put(@, self.counter, <<>>)]
        s4 == [s3 EXCEPT !.counter = @ + 1]
    IN  [s4 EXCEPT !.depgRelation = record_bases(@, node.name, base_ids(node))]

attribute_info(self, node) ==
    LET v_list == IF Has(self.verb_list, self.counter - 1)
                  THEN Get(self.verb_list, self.counter - 1)
                  ELSE <<>>
    IN  IF ~InSeq(node.attr, v_list)
        THEN [self EXCEPT !.verb_list =
                 Put(@, self.counter - 1, Append(v_list, node.attr))]
        ELSE self

visit(self, node, seed) ==
    LET s1 == IF node.kind = "ImportFrom" THEN import_info(self, node) ELSE self
    IN  IF node.kind = "ClassDef" THEN class_info(s1, node, seed)
        ELSE IF node.kind = "Attribute" THEN attribute_info(s1, node)
        ELSE s1

(* ------------------------------ DependencyDotGenerator ------------------ *)

\* The three writes of lines 35-37.
header_lines ==
    << <<"digraph G {\n">>,
       <<"ranksep=1.0;\n">>,
       <<"node [style=filled,fontname=Helvetica,fontsize=10];\n">> >>

\* '"{0}" -> "{1}" [arrowhead="empty", arrowtail="none"];\n'.format(a, b)
edge_text(a, b) ==
    <<"\"">> \o str(a) \o <<"\" -> \"">> \o str(b)
        \o <<"\" [arrowhead=\"empty\", arrowtail=\"none\"];\n">>

\* for d in deps: f.write('%s' % (self.fix(d))); f.write(';\n')
RECURSIVE print_deps(_)
print_deps(deps) ==
    IF deps = <<>> THEN <<>>
    ELSE <<fix(Head(deps)), <<";\n">> >> \o print_deps(Tail(deps))

\* The writes of print_classes, from the i-th module on.
RECURSIVE print_classes_from(_, _, _)
print_classes_from(dependencies, seed, i) ==
    IF i > Len(dependencies) THEN <<>>
    ELSE print_deps(IterSet(dependencies[i].v, seed))
             \o print_classes_from(dependencies, seed, i + 1)

print_classes(dependencies, seed) == print_classes_from(dependencies, seed, 1)

\* The writes of print_relations, from the i-th entry on.
RECURSIVE print_relations_from(_, _, _)
print_relations_from(relation, order, i) ==
    IF i > Len(relation) THEN <<>>
    ELSE LET give == relation[i].k
             take == relation[i].v
         IN  (IF ~Has(order, take) THEN <<>>
              ELSE <<edge_text(Get(order, give), Get(order, take))>>)
             \o print_relations_from(relation, order, i + 1)

print_relations(relation, order) == print_relations_from(relation, order, 1)

\* for item in list: if item in order: f.write(...format(order[item], num))
RECURSIVE print_imports_of(_, _, _)
print_imports_of(num, list, order) ==
    IF list = <<>> THEN <<>>
    ELSE (IF Has(order, Head(list))
          THEN <<edge_text(Get(order, Head(list)), num)>>
          ELSE <<>>)
         \o print_imports_of(num, Tail(list), order)

\* The writes of print_imp_relations, from the i-th entry on.
RECURSIVE print_imp_relations_from(_, _, _)
print_imp_relations_from(relation, order, i) ==
    IF i > Len(relation) THEN <<>>
    ELSE print_imports_of(relation[i].k, relation[i].v, order)
             \o print_imp_relations_from(relation, order, i + 1)

print_imp_relations(relation, order) ==
    print_imp_relations_from(relation, order, 1)

\* The write of line 43.
footer_lines == << <<"}\n">> >>

\* render with lines 39 and 40 exchanged: the relations before the classes.
render_swapped(p) ==
    CASE p = "open" -> "header"
      [] p = "header" -> "relations"
      [] p = "relations" -> "classes"
      [] p = "classes" -> "imp_relations"
      [] p = "imp_relations" -> "footer"
      [] p = "footer" -> "close"
      [] p = "close" -> "done"

\* The position render moves to after each of its steps (lines 33-44).
render_next(p) ==
    CASE p = "open" -> "header"
      [] p = "header" -> "classes"
      [] p = "classes" -> "relations"
      [] p = "relations" -> "imp_relations"
      [] p = "imp_relations" -> "footer"
      [] p = "footer" -> "close"
      [] p = "close" -> "done"

\* What render writes at position p, for the visitor's maps.
render_writes(p, v, seed) ==
    CASE p = "header" -> header_lines
      [] p = "classes" -> print_classes(v.depgraph, seed)
      [] p = "relations" -> print_relations(v.depgRelation, v.num_to_class)
      [] p = "imp_relations" ->
             print_imp_relations(v.import_relation, v.num_to_class)
      [] p = "footer" -> footer_lines

WritingSteps == <<"header", "classes", "relations", "imp_relations", "footer">>

\* Everything one run of render writes when no write fails.
RECURSIVE render_text(_, _, _)
render_text(p, v, seed) ==
    IF p \in {"close", "done"} THEN <<>>
    ELSE render_writes(p, v, seed) \o render_text(render_next(p), v, seed)

(* ------------------------------ UML_generator --------------------------- *)

VARIABLES
    import_visitor,  \* the ImportVisitor of the run
    hashseed,        \* the hash seed of the process
    files,           \* files of the package whose walk has begun
    walk,            \* the nodes ast.walk has yielded so far, with their module
    pc,              \* "walk", a position of render, "done", "raised", "exit"
    f_status,        \* the output stream: "unopened", "open", "closed"
    f_log,           \* what was done to the stream, in order
    second_text      \* the text a second run on the same tree writes

vars == <<import_visitor, hashseed, files, walk, pc, f_status, f_log, second_text>>

Init ==
    /\ import_visitor = ImportVisitor("pkg")
    /\ hashseed \in HashSeeds
    /\ files = 0
    /\ walk = <<>>
    /\ pc = "walk"
    /\ f_status = "unopened"
    /\ f_log = <<>>
    /\ second_text = <<>>

\* Nodes visited so far that are not the Module node of a file.
NodeCount == Len(walk) - files

\* import_visitor.visit(node) for the next node of the current file's walk.
VisitNode(node) ==
    /\ pc = "walk"
    /\ files >= 1
    /\ NodeCount < MaxNodes
    /\ import_visitor' = visit(import_visitor, node, hashseed)
    /\ walk' = Append(walk, [module |-> import_visitor.cur_module_name,
                             node |-> node])
    /\ UNCHANGED <<hashseed, files, pc, f_status, f_log, second_text>>

\* The next .py file: cur_module_name is set and the walk yields its Module
\* node first (lines 301-307).
NextFile ==
    /\ pc = "walk"
    /\ files < Len(ModuleNames)
    /\ import_visitor' =
           visit([import_visitor EXCEPT !.cur_module_name = ModuleNames[files + 1]],
                 Module, hashseed)
    /\ walk' = Append(walk, [module |-> ModuleNames[files + 1], node |-> Module])
    /\ files' = files + 1
    /\ UNCHANGED <<hashseed, pc, f_status, f_log, second_text>>

VisitImportFrom == \E node \in ImportFromNodes : VisitNode(node)

VisitClassDef == \E node \in ClassDefNodes : VisitNode(node)

VisitAttribute == \E node \in AttributeNodes : VisitNode(node)

StreamOp(op, by, text) == [op |-> op, by |-> by, text |-> text]

Writes(by, texts) == [i \in 1..Len(texts) |-> StreamOp("write", by, texts[i])]

\* The walk is over; render begins: f = open(output, 'w', encoding='utf-8').
RenderOpen ==
    /\ pc = "walk"
    /\ f_status' = "open"
    /\ f_log' = Append(f_log, StreamOp("open", "render", <<>>))
    /\ pc' = render_next("open")
    /\ UNCHANGED <<import_visitor, hashseed, files, walk, second_text>>

\* One writing step of render, all of its writes succeeding.
RenderStep(p) ==
    /\ pc = p
    /\ f_log' = f_log \o Writes(p, render_writes(p, import_visitor, hashseed))
    /\ pc' = render_next(p)
    /\ UNCHANGED <<import_visitor, hashseed, files, walk, f_status, second_text>>

RenderHeader == RenderStep("header")

RenderClasses == RenderStep("classes")

RenderRelations == RenderStep("relations")

RenderImpRelations == RenderStep("imp_relations")

RenderFooter == RenderStep("footer")

\* A write of the current step raises after n of the step's writes: the
\* exception leaves render, which has no handler and no finally.
WriteFails ==
    /\ InSeq(pc, WritingSteps)
    /\ LET texts == render_writes(pc, import_visitor, hashseed)
       IN  \E n \in 0..(Len(texts) - 1) :
               f_log' = f_log \o Writes(pc, SubSeq(texts, 1, n))
    /\ pc' = "raised"
    /\ UNCHANGED <<import_visitor, hashseed, files, walk, f_status, second_text>>

\* f.close()
RenderClose ==
    /\ pc = "close"
    /\ f_status' = "closed"
    /\ f_log' = Append(f_log, StreamOp("close", "render", <<>>))
    /\ pc' = render_next("close")
    /\ UNCHANGED <<import_visitor, hashseed, files, walk, second_text>>

\* The visitor's state after the nodes of w from the i-th on.
RECURSIVE analyze(_, _, _, _)
analyze(w, i, v, seed) ==
    IF i > Len(w) THEN v
    ELSE analyze(w, i + 1,
                 visit([v EXCEPT !.cur_module_name = w[i].module], w[i].node, seed),
                 seed)

\* UML_generator once more, in a new process, on the unchanged tree.
RunAgain ==
    /\ pc = "done"
    /\ \E seed \in HashSeeds :
           second_text' =
               render_text("header", analyze(walk, 1, ImportVisitor("pkg"), seed), seed)
    /\ pc' = "exit"
    /\ UNCHANGED <<import_visitor, hashseed, files, walk, f_status, f_log>>

Next ==
    \/ NextFile
    \/ VisitImportFrom
    \/ VisitClassDef
    \/ VisitAttribute
    \/ RenderOpen
    \/ RenderHeader
    \/ RenderClasses
    \/ RenderRelations
    \/ RenderImpRelations
    \/ RenderFooter
    \/ WriteFails
    \/ RenderClose
    \/ RunAgain

Spec == Init /\ [][Next]_vars

(* ------------------------------ reading the run ------------------------- *)

\* The class declarations visited so far, as positions of the walk.
ClassVisits == {i \in 1..Len(walk) : walk[i].node.kind = "ClassDef"}

ImportVisits == {i \in 1..Len(walk) : walk[i].node.kind = "ImportFrom"}

\* How many class declarations were visited before the i-th node.
VisitRank(i) == Cardinality({j \in ClassVisits : j < i})

Declared(name) == \E i \in ClassVisits : walk[i].node.name = name

LastOf(S) == CHOOSE i \in S : \A j \in S : j <= i

FirstOf(S) == CHOOSE i \in S : \A j \in S : i <= j

\* The writes of the log made at position p of render, as positions of the log.
WritesBy(p) == {i \in 1..Len(f_log) : f_log[i].op = "write" /\ f_log[i].by = p}

TextsBy(p) == {f_log[i].text : i \in WritesBy(p)}

\* The texts written, in order.
WrittenTexts ==
    LET RECURSIVE from(_)
        from(i) == IF i > Len(f_log) THEN <<>>
                   ELSE IF f_log[i].op = "write" THEN <<f_log[i].text>> \o from(i + 1)
                   ELSE from(i + 1)
    IN  from(1)

\* How a node record of ordinal j begins, and one of a class called name.
record_head(j) == <<"\"">> \o str(j) \o <<"\" [label=\"{">>

node_head(j, name) == record_head(j) \o name \o <<"| ">>

Ordinals == 0..Len(walk)

\* A text is a node record by the piece that opens its label, an edge by its
\* arrow.
IsNodeRecord(text) == InSeq("\" [label=\"{", text)

IsEdge(text) == InSeq("\" -> \"", text)

NodeRecords ==
    {i \in 1..Len(f_log) : f_log[i].op = "write" /\ IsNodeRecord(f_log[i].text)}

EdgeWrites ==
    {i \in 1..Len(f_log) : f_log[i].op = "write" /\ IsEdge(f_log[i].text)}

\* The ordinals that have a node record in the output.
NodeOrdinals ==
    {j \in Ordinals : \E i \in NodeRecords : startswith(f_log[i].text, record_head(j))}

(* ------------------------------ C1 -------------------------------------- *)

\* C1: when render has finished, the output holds exactly as many node
\* records as class declarations were visited, and the k-th declaration
\* visited (k from 0) has exactly one record, carrying ordinal k and its name:
\* the ordinals are 0..N-1 in visitation order, also when declarations share a
\* class name or a module.
C1_NodesAreTheDeclarations ==
    pc = "done" =>
        /\ Cardinality(NodeRecords) = Cardinality(ClassVisits)
        /\ NodeOrdinals = 0..(Cardinality(ClassVisits) - 1)
        /\ \A i \in ClassVisits :
               Cardinality({r \in NodeRecords :
                               startswith(f_log[r].text,
                                          node_head(VisitRank(i), walk[i].node.name))}) = 1

\* Three declarations rendered, two of one name and two in one module.
C1_Witness ==
    /\ pc = "done"
    /\ Cardinality(ClassVisits) >= 3
    /\ \E i, j \in ClassVisits :
           i # j /\ walk[i].node.name = walk[j].node.name /\ walk[i].module # walk[j].module
    /\ \E i, j \in ClassVisits : i # j /\ walk[i].module = walk[j].module

(* ------------------------------ C2 -------------------------------------- *)

\* The declarations of a class called name that name a simple-name base.
BasedVisits(name) ==
    {i \in ClassVisits : walk[i].node.name = name /\ base_ids(walk[i].node) # <<>>}

BasedNames == {walk[i].node.name : i \in {j \in ClassVisits : base_ids(walk[j].node) # <<>>}}

\* The last simple-name base of the last declaration of name that has one.
RetainedBase(name) ==
    LET ids == base_ids(walk[LastOf(BasedVisits(name))].node)
    IN  ids[Len(ids)]

\* The ordinal of the last declaration of a class called name.
LastOrdinal(name) ==
    VisitRank(LastOf({i \in ClassVisits : walk[i].node.name = name}))

\* The inheritance edges whose source is ordinal a, as positions of the log.
InheritanceFrom(a) ==
    {w \in WritesBy("relations") : \E b \in Ordinals : f_log[w].text = edge_text(a, b)}

\* C2 as stated: for every declaration A and every simple-name base B of it,
\* an inheritance edge from A's ordinal to the ordinal of a declaration of B is
\* written iff B is declared; and a declaration with several simple-name bases
\* has exactly one inheritance edge.
C2_Original ==
    pc = "done" =>
        \A i \in ClassVisits :
            LET ids == base_ids(walk[i].node)
                a == VisitRank(i)
            IN  /\ \A n \in 1..Len(ids) :
                       (\E j \in ClassVisits :
                            /\ walk[j].node.name = ids[n]
                            /\ edge_text(a, VisitRank(j)) \in TextsBy("relations"))
                       <=> Declared(ids[n])
                /\ Len(ids) >= 2 => Cardinality(InheritanceFrom(a)) = 1

\* C2 amended: for every class name A with a simple-name base, at most one
\* inheritance edge is written, never more; it is written iff the base retained
\* for A (the last simple-name base of the last declaration of A that has one)
\* is declared in the tree, and then runs from the ordinal of the last
\* declaration of A to the ordinal of the last declaration of that base.
C2_LastBaseWins ==
    pc = "done" =>
        LET drawn == {A \in BasedNames : Declared(RetainedBase(A))}
        IN  /\ TextsBy("relations") =
                   {edge_text(LastOrdinal(A), LastOrdinal(RetainedBase(A))) : A \in drawn}
            /\ Cardinality(WritesBy("relations")) = Cardinality(drawn)

\* A class with two declared simple-name bases is rendered, with its edge to
\* the last of them.
C2_Witness ==
    /\ pc = "done"
    /\ \E i \in ClassVisits :
           LET ids == base_ids(walk[i].node)
           IN  /\ Len(ids) >= 2
               /\ Declared(ids[1])
               /\ Declared(ids[Len(ids)])
               /\ edge_text(VisitRank(i), LastOrdinal(ids[Len(ids)])) \in TextsBy("relations")

(* ------------------------------ C3 -------------------------------------- *)

\* The names the from-imports of the walk import.
ImportedNames ==
    UNION {{walk[i].node.names[n] : n \in 1..Len(walk[i].node.names)} : i \in ImportVisits}

\* name is imported by a from-import of module m, at any place of its list.
ImportedIn(name, m) ==
    \E i \in ImportVisits : walk[i].module = m /\ InSeq(name, walk[i].node.names)

\* C3 as stated: an import edge from the ordinal of a declaration of Y to the
\* ordinal of class X is written iff the module of X's declaration has a
\* from-import of Y (wherever it stands, whatever Y's place in its list) and Y
\* is declared; and no import edge starts at a class whose name the filter of
\* import_info skips.
C3_Original ==
    pc = "done" =>
        /\ \A x \in ClassVisits : \A Y \in ImportedNames :
               (\E y \in ClassVisits :
                    /\ walk[y].node.name = Y
                    /\ edge_text(VisitRank(y), VisitRank(x)) \in TextsBy("imp_relations"))
               <=> (Declared(Y) /\ ImportedIn(Y, walk[x].module))
        /\ \A Y \in ImportedNames :
               skipped_import(Y) =>
                   \A y \in ClassVisits :
                       walk[y].node.name = Y =>
                           \A b \in Ordinals :
                               edge_text(VisitRank(y), b) \notin TextsBy("imp_relations")

(* ------------------------------ C4 -------------------------------------- *)

\* C4 as stated: the second run on the unchanged tree writes, write for write,
\* the text the first run wrote.
C4_Original == pc = "exit" => second_text = WrittenTexts

(* ------------------------------ C5 -------------------------------------- *)

\* The place of a stream operation in the order render promises.
Rank(e) ==
    CASE e.op = "open" -> 0
      [] e.op = "close" -> 6
      [] e.op = "write" /\ e.by = "header" -> 1
      [] e.op = "write" /\ e.by = "classes" -> 2
      [] e.op = "write" /\ e.by = "relations" -> 3
      [] e.op = "write" /\ e.by = "imp_relations" -> 4
      [] e.op = "write" /\ e.by = "footer" -> 5

\* C5: in every execution of render, finished or not, the stream operations
\* come in the order open, header, node records, inheritance edges, import
\* edges, closing delimiter, close: no operation of an earlier kind follows one
\* of a later kind, no node record follows an edge, the stream is opened and
\* closed at most once and the delimiter written at most once; and a finished
\* execution has the open, the three header lines, the delimiter and the close.
C5_RenderOrder ==
    /\ \A i \in 1..(Len(f_log) - 1) :
           LET r == Rank(f_log[i])
               n == Rank(f_log[i + 1])
           IN  r <= n /\ (r \in {0, 5, 6} => r < n)
    /\ \A i \in EdgeWrites : \A j \in NodeRecords : j < i
    /\ \A i \in WritesBy("imp_relations") : \A j \in WritesBy("relations") : j < i
    /\ \A i \in 1..Len(f_log) :
           /\ f_log[i].by = "classes" =>
                  IsNodeRecord(f_log[i].text) \/ f_log[i].text = <<";\n">>
           /\ f_log[i].by \in {"relations", "imp_relations"} => IsEdge(f_log[i].text)
    /\ pc = "done" =>
           /\ Len(f_log) >= 6
           /\ f_log[1].op = "open"
           /\ [i \in 1..3 |-> f_log[i + 1].text] = header_lines
           /\ \A i \in 2..4 : f_log[i].by = "header"
           /\ f_log[Len(f_log) - 1].text = <<"}\n">>
           /\ f_log[Len(f_log) - 1].by = "footer"
           /\ f_log[Len(f_log)].op = "close"

\* A finished rendering with a node record, an inheritance edge and an import
\* edge.
C5_Witness ==
    /\ pc = "done"
    /\ WritesBy("classes") # {}
    /\ WritesBy("relations") # {}
    /\ WritesBy("imp_relations") # {}

(* ------------------------------ C6 -------------------------------------- *)

\* The labels of the dependency graph.
Labels ==
    UNION {import_visitor.depgraph[i].v : i \in 1..Len(import_visitor.depgraph)}

\* <<j, name>>: a declaration of a class called name was given ordinal j.
Given ==
    {p \in Ordinals \X {walk[i].node.name : i \in ClassVisits} :
        \E l \in Labels : startswith(l, node_head(p[1], p[2]))}

\* The name-to-ordinal map is one-to-one over the declared classes.
OneToOne ==
    /\ Cardinality({p[1] : p \in Given}) = Cardinality(ClassVisits)
    /\ \A p \in Given :
           /\ Has(import_visitor.num_to_class, p[2])
           /\ Get(import_visitor.num_to_class, p[2]) = p[1]

\* C6 as stated: no step decreases the counter, and after every step the
\* declarations visited have distinct ordinals, each of them the value the
\* name-to-ordinal map holds for its class name.
C6_Original ==
    [][/\ import_visitor'.counter >= import_visitor.counter
       /\ OneToOne']_vars

(* ------------------------------ C7 -------------------------------------- *)

\* The label of the i-th node of the walk, a class declaration.
LabelOf(i) ==
    CHOOSE l \in Labels : startswith(l, node_head(VisitRank(i), walk[i].node.name))

\* What a label holds between the head and the closing piece.
LabelBody(i) ==
    LET l == LabelOf(i)
        h == node_head(VisitRank(i), walk[i].node.name)
    IN  SubSeq(l, Len(h) + 1, Len(l) - 1)

Bars(b) == {n \in 1..Len(b) : b[n] = "| "}

FieldSection(b) == IF Bars(b) = {} THEN b ELSE SubSeq(b, 1, FirstOf(Bars(b)) - 1)

MethodSection(b) == IF Bars(b) = {} THEN <<>> ELSE SubSeq(b, FirstOf(Bars(b)) + 1, Len(b))

\* The entries of a section: each ends with the piece \l.
RECURSIVE Entries(_)
Entries(sec) ==
    LET ends == {n \in 1..Len(sec) : sec[n] = "\\l"}
    IN  IF ends = {} THEN <<>>
        ELSE <<SubSeq(sec, 1, FirstOf(ends) - 1)>>
                 \o Entries(SubSeq(sec, FirstOf(ends) + 1, Len(sec)))

\* The attribute accesses on self in the methods called __init__ whose name
\* starts with one underscore and not with two.
InitSelfFields(node) ==
    UNION {{node.body[m].attrs[n].attr :
               n \in {k \in 1..Len(node.body[m].attrs) :
                         /\ node.body[m].attrs[k].value = "self"
                         /\ startswith(node.body[m].attrs[k].attr, <<"_">>)
                         /\ ~startswith(node.body[m].attrs[k].attr, <<"_", "_">>)}} :
           m \in {k \in 1..Len(node.body) : node.body[k].name = init}}

\* The entries of the other methods whose name does not start with two
\* underscores, in order.
RECURSIVE PublicMethodEntries(_, _)
PublicMethodEntries(node, m) ==
    IF m > Len(node.body) THEN <<>>
    ELSE (IF startswith(node.body[m].name, <<"_", "_">>) THEN <<>>
          ELSE <<node.body[m].name \o <<"()">> >>)
         \o PublicMethodEntries(node, m + 1)

\* C7 as stated: the field entries of every declaration's label are the
\* single-underscore attribute accesses on self inside __init__, and its method
\* entries, in the section after the field section, are the other methods that
\* do not start with two underscores.
C7_Original ==
    \A i \in ClassVisits :
        /\ {Entries(FieldSection(LabelBody(i)))[n] :
               n \in 1..Len(Entries(FieldSection(LabelBody(i))))}
               = InitSelfFields(walk[i].node)
        /\ Entries(MethodSection(LabelBody(i))) = PublicMethodEntries(walk[i].node, 1)

(* ------------------------------ C8 -------------------------------------- *)

\* C8 as stated: the stream is opened at most once, no step writes after a
\* write has failed, and whenever render has returned or raised the stream is
\* not open.
C8_Original ==
    [][/\ Cardinality({i \in 1..Len(f_log') : f_log'[i].op = "open"}) <= 1
       /\ pc = "raised" => f_log' = f_log
       /\ pc' \in {"done", "raised", "exit"} => f_status' # "open"]_vars

(* ------------------------------ C9 -------------------------------------- *)

\* C9 as stated: both ends of every edge of a finished output are ordinals of
\* node records of that output.
C9_Original ==
    pc = "done" =>
        \A w \in WritesBy("relations") \cup WritesBy("imp_relations") :
            \E a \in NodeOrdinals, b \in NodeOrdinals : f_log[w].text = edge_text(a, b)

(* ------------------------------ C10 ------------------------------------- *)

\* The keys of the attribute-usage map are ordinals of declared classes and no
\* list holds a name twice.
VerbListSound ==
    LET vl == import_visitor.verb_list
    IN  \A n \in 1..Len(vl) :
            /\ 0 <= vl[n].k
            /\ vl[n].k < import_visitor.counter
            /\ \A a, b \in 1..Len(vl[n].v) : a # b => vl[n].v[a] # vl[n].v[b]

\* The step visits an attribute-access node.
AttributeStep ==
    /\ Len(walk') = Len(walk) + 1
    /\ walk'[Len(walk')].node.kind = "Attribute"

\* C10 as stated: after every step the attribute-usage map is sound, and a
\* visit of an attribute access changes no other part of the visitor.
C10_Original ==
    [][/\ VerbListSound'
       /\ AttributeStep =>
              /\ import_visitor'.counter = import_visitor.counter
              /\ import_visitor'.num_to_class = import_visitor.num_to_class
              /\ import_visitor'.depgRelation = import_visitor.depgRelation
              /\ import_visitor'.import_relation = import_visitor.import_relation
              /\ import_visitor'.depgraph = import_visitor.depgraph]_vars

=============================================================================
